---- MODULE Spec2Model ----
(***************************************************************************)
(* Content hub navigation controller (src/script.js).                      *)
(*                                                                         *)
(* The page is a row of navigation buttons, one embedded content frame, a  *)
(* frame container carrying the "loading" class and the error overlays, a  *)
(* welcome screen, a bottom navigation dock and a welcome message whose    *)
(* text is split into one animated span per character at startup.          *)
(*                                                                         *)
(* Time is in milliseconds.  A timer runs at the instant it falls due: the *)
(* clock cannot pass a pending timer, and other events of the same instant *)
(* may run before or after it.                                             *)
(***************************************************************************)
EXTENDS Integers, Sequences, FiniteSets, TLC

(***************************************************************************)
(* Bounds of the model.                                                    *)
(***************************************************************************)
MaxButtons == 3
MaxText == 2
MaxErrors == 2
MaxPending == 2
MaxTime == 4500
TimeStep == 1500

(***************************************************************************)
(* Program constants.                                                      *)
(***************************************************************************)
CharDelayMs == 30
RevealMs == 600
JitterMs == 2500
OverlayMs == 3000
VibrateMs == 10
FirstSlowIndex == 2

(***************************************************************************)
(* Small helpers.                                                          *)
(***************************************************************************)
Min(a, b) == IF a <= b THEN a ELSE b

Range(s) == {s[i] : i \in 1..Len(s)}

RECURSIVE Concat(_)
Concat(ss) == IF ss = <<>> THEN <<>> ELSE Head(ss) \o Concat(Tail(ss))

(***************************************************************************)
(* DOM nodes of the welcome message.  nodeType 1 is an element, 3 a text   *)
(* node, 8 a comment; 0 stands for null (querySelector found nothing).     *)
(* text is the sequence of characters of a text node; styled says whether  *)
(* an element carries a style attribute; delay is the animation delay of   *)
(* its style in hundredths of a second, as toFixed(2) prints it (-1: none).*)
(***************************************************************************)
NBSP == "nbsp"

NullNode ==
    [nodeType |-> 0, tagName |-> "", styled |-> FALSE, delay |-> -1,
     text |-> <<>>, childNodes |-> <<>>]

TextNode(t) ==
    [nodeType |-> 3, tagName |-> "#text", styled |-> FALSE, delay |-> -1,
     text |-> t, childNodes |-> <<>>]

CommentNode ==
    [nodeType |-> 8, tagName |-> "#comment", styled |-> FALSE, delay |-> -1,
     text |-> <<>>, childNodes |-> <<>>]

Element(tag, styled, kids) ==
    [nodeType |-> 1, tagName |-> tag, styled |-> styled, delay |-> -1,
     text |-> <<>>, childNodes |-> kids]

(***************************************************************************)
(* String.prototype.trim: strips white space and line terminators from     *)
(* both ends.                                                              *)
(***************************************************************************)
TrimSet == {" ", "\n", "\r", "\t", NBSP}

RECURSIVE TrimStart(_)
TrimStart(t) ==
    IF t # <<>> /\ Head(t) \in TrimSet THEN TrimStart(Tail(t)) ELSE t

RECURSIVE TrimEnd(_)
TrimEnd(t) ==
    IF t # <<>> /\ t[Len(t)] \in TrimSet
    THEN TrimEnd(SubSeq(t, 1, Len(t) - 1))
    ELSE t

Trim(t) == TrimEnd(TrimStart(t))

(***************************************************************************)
(* (charIndex * 0.03).toFixed(2), in hundredths of a second: the product   *)
(* is within one ulp of a multiple of 0.01 and toFixed rounds to nearest.  *)
(***************************************************************************)
ToFixed2(ms) == (ms + 5) \div 10

\* Mutant: the span carries its delay without a style attribute.
CharSpan_NoStyle(char, idx) ==
    [nodeType |-> 1, tagName |-> "span", styled |-> FALSE,
     delay |-> ToFixed2(idx * CharDelayMs),
     text |-> <<>>, childNodes |-> <<TextNode(<<char>>)>>]

CharSpan(char, idx) ==
    [nodeType |-> 1, tagName |-> "span", styled |-> TRUE,
     delay |-> ToFixed2(idx * CharDelayMs),
     text |-> <<>>, childNodes |-> <<TextNode(<<char>>)>>]

(***************************************************************************)
(* The loop over the characters of one text node (lines 47-59): the        *)
(* fragment built so far and the running charIndex.                        *)
(***************************************************************************)
RECURSIVE SplitText(_, _, _)
SplitText(text, idx, fragment) ==
    IF text = <<>> THEN [out |-> fragment, idx |-> idx]
    ELSE LET char == Head(text) IN
         IF char = " "
         THEN SplitText(Tail(text), idx, Append(fragment, TextNode(<<" ">>)))
         ELSE IF char = "\n" \/ char = "\r" \/ char = "\t"
         THEN SplitText(Tail(text), idx, fragment)
         ELSE SplitText(Tail(text), idx + 1,
                        Append(fragment, CharSpan(char, idx)))

(***************************************************************************)
(* processNode (lines 40-68).  out is the sequence of nodes that stands in *)
(* the parent's child list where node stood; idx is charIndex afterwards.  *)
(***************************************************************************)
RECURSIVE processNode(_, _)
RECURSIVE ProcessChildren(_, _, _)

processNode(node, idx) ==
    IF node.nodeType = 3
    THEN IF Len(Trim(node.text)) = 0
         THEN [out |-> <<node>>, idx |-> idx]
         ELSE SplitText(node.text, idx, <<>>)
    ELSE IF node.nodeType = 1 /\ node.tagName # "br" /\ ~node.styled
    THEN LET r == ProcessChildren(node.childNodes, idx, <<>>) IN
         [out |-> <<[node EXCEPT !.childNodes = r.out]>>, idx |-> r.idx]
    ELSE [out |-> <<node>>, idx |-> idx]

ProcessChildren(kids, idx, done) ==
    IF kids = <<>> THEN [out |-> done, idx |-> idx]
    ELSE LET r == processNode(Head(kids), idx) IN
         ProcessChildren(Tail(kids), r.idx, done \o r.out)

(***************************************************************************)
(* The delay handed to setTimeout at line 81.  totalDelay * 1000 is        *)
(* computed in binary64 and setTimeout takes a long, so the product is     *)
(* truncated to an integer.  For the unit counts of RoundsBelow the        *)
(* product (charIndex * 0.03 + 0.6) * 1000 is the double just below the    *)
(* integer (7 units: 809.9999999999999), for the other counts below 41 it  *)
(* is the integer or just above it.                                        *)
(***************************************************************************)
RoundsBelow == {2, 7, 10, 11, 15, 17, 22, 24, 31, 33, 38, 40}

TotalDelayMs(count) ==
    IF count \in RoundsBelow
    THEN count * CharDelayMs + RevealMs - 1
    ELSE count * CharDelayMs + RevealMs

(***************************************************************************)
(* State.                                                                  *)
(***************************************************************************)
VARIABLES
    navButtons,      \* the .nav-btn elements: url, active class, aria-current
    contentFrame,    \* #contentFrame: exists, src
    frameContainer,  \* .frame-container: exists, loading class, overlays
    welcomeScreen,   \* .welcome-screen: exists, active class
    bottomNav,       \* .bottom-nav: exists, jitter class
    messageEl,       \* .welcome-message subtree, NullNode when absent
    hasVibrate,      \* navigator.vibrate is available
    currentUrl,      \* line 13
    charIndex,       \* line 38, as left by the traversal
    listeners,       \* kinds of event listeners registered so far
    timers,          \* pending setTimeout callbacks
    now,             \* milliseconds since the script ran
    pending,         \* frame navigations whose load/error signal is still due
    started,         \* the script has run
    authored,        \* history: the welcome message as the page delivered it
    errors,          \* history: the instants of the frame error signals
    activated,       \* history: some button has been activated
    navigated,       \* history: some button with a url has been activated
    slowRequested,   \* history: a slow tab was requested since the last
                     \*          load or error signal
    last             \* the event handled last and how its handler ended

vars ==
    <<navButtons, contentFrame, frameContainer, welcomeScreen, bottomNav,
      messageEl, hasVibrate, currentUrl, charIndex, listeners, timers, now,
      pending, started, authored, errors, activated, navigated,
      slowRequested, last>>

dom == <<navButtons, contentFrame, frameContainer, welcomeScreen, bottomNav,
         messageEl>>

(***************************************************************************)
(* Pages.  Button rows are taken up to the naming of the urls: the first   *)
(* url of a row is UrlNames[1], each further button repeats an earlier url *)
(* or takes the next name; "" is a button without a data-url.              *)
(***************************************************************************)
UrlNames == <<"/home.html", "/apps.html", "/games.html", "/broken.html",
              "/more.html">>

Button(url) == [url |-> url, active |-> FALSE, ariaCurrent |-> ""]

UsedUrls(row) == {row[i].url : i \in 1..Len(row)} \ {""}

RECURSIVE ButtonRows(_)
ButtonRows(n) ==
    IF n = 0 THEN {<<>>}
    ELSE {Append(row, Button(u)) :
            row \in ButtonRows(n - 1),
            u \in {""} \cup {UrlNames[j] : j \in 1..Min(Len(UrlNames), n)}}

Canonical(row) ==
    \A i \in 1..Len(row) :
        row[i].url # "" =>
            \E j \in 1..Cardinality(UsedUrls(SubSeq(row, 1, i - 1))) + 1 :
                j <= Len(UrlNames) /\ row[i].url = UrlNames[j]

Rows == {row \in UNION {ButtonRows(n) : n \in 0..MaxButtons} : Canonical(row)}

(***************************************************************************)
(* Welcome messages.                                                       *)
(***************************************************************************)
Chars == {"H", "i", " ", "\n", "\r", "\t", NBSP}

Texts == UNION {[1..n -> Chars] : n \in 1..MaxText}

P(kids) == Element("p", FALSE, kids)

HiThere == P(<<TextNode(<<"H", "i", " ", "t", "h", "e", "r", "e">>)>>)

Shapes(t, u) ==
    { P(<<TextNode(t), Element("br", FALSE, <<>>), TextNode(u)>>),
      P(<<TextNode(t), Element("em", FALSE, <<TextNode(u)>>)>>),
      P(<<Element("b", FALSE, <<Element("em", FALSE, <<TextNode(t)>>)>>),
          CommentNode, TextNode(u)>>),
      P(<<Element("em", TRUE, <<TextNode(t)>>), TextNode(u)>>),
      Element("p", TRUE, <<TextNode(t), TextNode(u)>>) }

TreeMessages == UNION {Shapes(t, u) : t \in Texts, u \in [1..1 -> Chars]}

Idle == [op |-> "none", index |-> -1, redundant |-> FALSE, threw |-> FALSE,
         vibrate |-> 0]

(***************************************************************************)
(* What a page has.  The expected page has everything; beside it stand the *)
(* pages that lack one of the parts the script tests for, and the page     *)
(* whose welcome message is empty.                                         *)
(***************************************************************************)
FullPage ==
    [frame |-> TRUE, container |-> TRUE, welcome |-> TRUE, dock |-> TRUE,
     vibrate |-> TRUE, message |-> HiThere]

ExpectedPages ==
    { FullPage,
      [FullPage EXCEPT !.welcome = FALSE],
      [FullPage EXCEPT !.dock = FALSE],
      [FullPage EXCEPT !.vibrate = FALSE],
      [FullPage EXCEPT !.message = NullNode],
      [FullPage EXCEPT !.message = P(<<>>)] }

BrokenPages ==
    { [FullPage EXCEPT !.frame = FALSE],
      [FullPage EXCEPT !.container = FALSE],
      [FullPage EXCEPT !.frame = FALSE, !.container = FALSE] }

InitPage(rows, pages) ==
    /\ navButtons \in rows
    /\ \E page \in pages :
          /\ contentFrame = [exists |-> page.frame, src |-> ""]
          /\ frameContainer = [exists |-> page.container, loading |-> FALSE,
                               overlays |-> <<>>]
          /\ welcomeScreen = [exists |-> page.welcome, active |-> page.welcome]
          /\ bottomNav = [exists |-> page.dock, jitter |-> FALSE]
          /\ messageEl = page.message
          /\ hasVibrate = page.vibrate
    /\ currentUrl = ""
    /\ charIndex = 0
    /\ listeners = {}
    /\ timers = {}
    /\ now = 0
    /\ pending = 0
    /\ started = FALSE
    /\ authored = messageEl
    /\ errors = <<>>
    /\ activated = FALSE
    /\ navigated = FALSE
    /\ slowRequested = FALSE
    /\ last = Idle

(***************************************************************************)
(* The initial states: the expected page under every button row, and every *)
(* page that lacks an optional part under the regular row, whose buttons   *)
(* all have urls of their own.                                             *)
(***************************************************************************)
RegularRow == [i \in 1..MaxButtons |-> Button(UrlNames[i])]

Init ==
    \/ InitPage(Rows, {FullPage})
    \/ InitPage({RegularRow}, ExpectedPages)

(***************************************************************************)
(* The script body (lines 206-217): init, setupKeyboardNavigation and      *)
(* setupErrorHandling in turn.  init raises a TypeError at line 25 when    *)
(* the frame is missing; the click listeners are attached by then, the     *)
(* rest of the script is not reached.                                      *)
(***************************************************************************)
JitterOn == [run |-> "jitterOn", due |-> 0, target |-> 0]

\* Mutant: without the early return of line 36 the jitter is scheduled for
\* a page that has no welcome message.
prepareWelcomeAnimation_NoGuard ==
    LET r == IF messageEl = NullNode
             THEN [out |-> <<NullNode>>, idx |-> 0]
             ELSE processNode(messageEl, 0)
    IN /\ messageEl' = r.out[1]
       /\ charIndex' = r.idx
       /\ timers' =
            IF bottomNav.exists
            THEN timers \cup
                   {[JitterOn EXCEPT !.due = now + TotalDelayMs(r.idx)]}
            ELSE timers

prepareWelcomeAnimation ==
    IF messageEl = NullNode
    THEN /\ UNCHANGED <<messageEl, charIndex, timers>>
    ELSE LET r == processNode(messageEl, 0) IN
         /\ messageEl' = r.out[1]
         /\ charIndex' = r.idx
         /\ timers' =
              IF bottomNav.exists
              THEN timers \cup
                     {[JitterOn EXCEPT !.due = now + TotalDelayMs(r.idx)]}
              ELSE timers

Startup ==
    /\ ~started
    /\ started' = TRUE
    /\ IF ~contentFrame.exists
       THEN /\ listeners' = {"click"}
            /\ last' = [Idle EXCEPT !.op = "startup", !.threw = TRUE]
            /\ UNCHANGED <<messageEl, charIndex, timers, pending>>
       ELSE /\ listeners' = {"click", "load", "keydown", "error"}
            /\ prepareWelcomeAnimation
            /\ pending' = 1
            /\ last' = [Idle EXCEPT !.op = "startup"]
    /\ UNCHANGED <<navButtons, contentFrame, frameContainer, welcomeScreen,
                   bottomNav, hasVibrate, currentUrl, now, authored, errors,
                   activated, navigated, slowRequested>>

(***************************************************************************)
(* updateActiveButton (lines 113-121); index counts from 0 as in the       *)
(* source, navButtons[index + 1] is the button.                            *)
(***************************************************************************)
\* Mutant: the other buttons keep their active class.
updateActiveButton_KeepOthers(index) ==
    [i \in 1..Len(navButtons) |->
        IF i = index + 1
        THEN [navButtons[i] EXCEPT !.active = TRUE, !.ariaCurrent = "page"]
        ELSE navButtons[i]]

updateActiveButton(index) ==
    [i \in 1..Len(navButtons) |->
        IF i = index + 1
        THEN [navButtons[i] EXCEPT !.active = TRUE, !.ariaCurrent = "page"]
        ELSE [navButtons[i] EXCEPT !.active = FALSE, !.ariaCurrent = "false"]]

\* Mutant: the third tab counts as fast too.
isFastTab_UpToTwo(buttonIndex) == buttonIndex \in 0..2

\* Mutant: only the first tab counts as fast.
isFastTab_OnlyFirst(buttonIndex) == buttonIndex = 0

isFastTab(buttonIndex) == buttonIndex = 0 \/ buttonIndex = 1

(***************************************************************************)
(* The test of line 93: a missing or empty data-url, or the url on show.   *)
(***************************************************************************)
\* Mutant: the url on show is not recognised.
isRedundant_EmptyOnly(url) == url = ""

\* Mutant: the test of line 93 is missing.
isRedundant_Never(url) == FALSE

isRedundant(url) == url = "" \/ url = currentUrl

(***************************************************************************)
(* loadContent (lines 128-146).  It raises a TypeError at line 139/141     *)
(* when the frame container is missing and at line 145 when the frame is   *)
(* missing; what was assigned before stays assigned.  done is the record   *)
(* of a handler that runs to its end.                                      *)
(***************************************************************************)
\* Mutant: currentUrl is assigned on the slow path only.
loadContent_UrlOnSlowPath(url, buttonIndex, done) ==
    /\ welcomeScreen' =
         IF welcomeScreen.exists
         THEN [welcomeScreen EXCEPT !.active = FALSE]
         ELSE welcomeScreen
    /\ IF ~frameContainer.exists
       THEN /\ last' = [done EXCEPT !.threw = TRUE]
            /\ UNCHANGED <<frameContainer, currentUrl, contentFrame, pending,
                           slowRequested>>
       ELSE /\ frameContainer' =
                 [frameContainer EXCEPT !.loading = ~isFastTab(buttonIndex)]
            /\ slowRequested' = (slowRequested \/ ~isFastTab(buttonIndex))
            /\ currentUrl' = IF isFastTab(buttonIndex) THEN currentUrl ELSE url
            /\ IF ~contentFrame.exists
               THEN /\ last' = [done EXCEPT !.threw = TRUE]
                    /\ UNCHANGED <<contentFrame, pending>>
               ELSE /\ contentFrame' = [contentFrame EXCEPT !.src = url]
                    /\ pending' = Min(pending + 1, MaxPending)
                    /\ last' = [done EXCEPT !.vibrate =
                                  IF hasVibrate THEN VibrateMs ELSE 0]

loadContent(url, buttonIndex, done) ==
    /\ welcomeScreen' =
         IF welcomeScreen.exists
         THEN [welcomeScreen EXCEPT !.active = FALSE]
         ELSE welcomeScreen
    /\ IF ~frameContainer.exists
       THEN /\ last' = [done EXCEPT !.threw = TRUE]
            /\ UNCHANGED <<frameContainer, currentUrl, contentFrame, pending,
                           slowRequested>>
       ELSE /\ frameContainer' =
                 [frameContainer EXCEPT !.loading = ~isFastTab(buttonIndex)]
            /\ slowRequested' = (slowRequested \/ ~isFastTab(buttonIndex))
            /\ currentUrl' = url
            /\ IF ~contentFrame.exists
               THEN /\ last' = [done EXCEPT !.threw = TRUE]
                    /\ UNCHANGED <<contentFrame, pending>>
               ELSE /\ contentFrame' = [contentFrame EXCEPT !.src = url]
                    /\ pending' = Min(pending + 1, MaxPending)
                    /\ last' = [done EXCEPT !.vibrate =
                                  IF hasVibrate THEN VibrateMs ELSE 0]

(***************************************************************************)
(* handleNavClick (lines 89-107), the listener of the click event, which a *)
(* pointer click and navButtons[index].click() both dispatch.  The haptic  *)
(* pulse of line 105 is recorded in last.vibrate.                          *)
(***************************************************************************)
handleNavClick(index) ==
    LET url == navButtons[index + 1].url
        done == [op |-> "click", index |-> index,
                 redundant |-> isRedundant(url),
                 threw |-> FALSE, vibrate |-> 0]
    IN
    /\ activated' = TRUE
    /\ navigated' = (navigated \/ url # "")
    /\ IF isRedundant(url)
       THEN /\ last' = done
            /\ UNCHANGED <<navButtons, welcomeScreen, frameContainer,
                           currentUrl, contentFrame, pending, slowRequested>>
       ELSE /\ navButtons' = updateActiveButton(index)
            /\ loadContent(url, index, done)
    /\ UNCHANGED <<bottomNav, messageEl, hasVibrate, charIndex, listeners,
                   timers, now, started, authored, errors>>

(***************************************************************************)
(* A pointer click on the button with the given index.                     *)
(***************************************************************************)
Click(index) ==
    /\ started
    /\ "click" \in listeners
    /\ index \in 0..Len(navButtons) - 1
    /\ handleNavClick(index)

(***************************************************************************)
(* Keys.  event.key is compared with '1' and '5' as a string: by the code  *)
(* of its first character, and a longer string is above its own prefix.    *)
(***************************************************************************)
Keys ==
    { [key |-> "0", code |-> 48, length |-> 1],
      [key |-> "1", code |-> 49, length |-> 1],
      [key |-> "2", code |-> 50, length |-> 1],
      [key |-> "3", code |-> 51, length |-> 1],
      [key |-> "4", code |-> 52, length |-> 1],
      [key |-> "5", code |-> 53, length |-> 1],
      [key |-> "6", code |-> 54, length |-> 1],
      [key |-> "Enter", code |-> 69, length |-> 5] }

AtLeastOne(k) == k.code >= 49

AtMostFive(k) == k.code < 53 \/ (k.code = 53 /\ k.length = 1)

\* Mutant: the digit is taken as the index itself.
ParseInt_OneBased(k) == k.code - 47

ParseInt(k) == k.code - 48

(***************************************************************************)
(* The key events tried: every key with the modifier, one without.         *)
(***************************************************************************)
KeyEvents ==
    {[altKey |-> TRUE, k |-> k] : k \in Keys} \cup
    {[altKey |-> FALSE, k |-> k] : k \in {q \in Keys : q.key = "1"}}

(***************************************************************************)
(* The keydown listener (lines 159-168).                                   *)
(***************************************************************************)
KeyDown(altKey, k) ==
    /\ started
    /\ "keydown" \in listeners
    /\ IF altKey /\ AtLeastOne(k) /\ AtMostFive(k)
          /\ ParseInt(k) - 1 < Len(navButtons)
       THEN handleNavClick(ParseInt(k) - 1)
       ELSE /\ last' = [Idle EXCEPT !.op = "keydown"]
            /\ UNCHANGED <<dom, hasVibrate, currentUrl, charIndex, listeners,
                           timers, now, pending, started, authored, errors,
                           activated, navigated, slowRequested>>

(***************************************************************************)
(* handleFrameLoad (lines 151-153), run on the frame's load signal.  A     *)
(* frame navigation gives at most one signal, load or error.               *)
(***************************************************************************)
\* Mutant: a load signal older than the latest request is ignored.
handleFrameLoad_IgnoresStale ==
    /\ last' = [Idle EXCEPT !.op = "load", !.threw = ~frameContainer.exists]
    /\ frameContainer' =
         IF frameContainer.exists /\ pending = 1
         THEN [frameContainer EXCEPT !.loading = FALSE]
         ELSE frameContainer

\* Mutant: the load signal leaves the loading class alone.
handleFrameLoad_KeepsLoading ==
    /\ last' = [Idle EXCEPT !.op = "load", !.threw = ~frameContainer.exists]
    /\ UNCHANGED frameContainer

handleFrameLoad ==
    IF frameContainer.exists
    THEN /\ frameContainer' = [frameContainer EXCEPT !.loading = FALSE]
         /\ last' = [Idle EXCEPT !.op = "load"]
    ELSE /\ last' = [Idle EXCEPT !.op = "load", !.threw = TRUE]
         /\ UNCHANGED frameContainer

FrameLoad ==
    /\ started
    /\ "load" \in listeners
    /\ pending > 0
    /\ pending' = pending - 1
    /\ slowRequested' = FALSE
    /\ handleFrameLoad
    /\ UNCHANGED <<navButtons, contentFrame, welcomeScreen, bottomNav,
                   messageEl, hasVibrate, currentUrl, charIndex, listeners,
                   timers, now, started, authored, errors, activated,
                   navigated>>

(***************************************************************************)
(* The error listener (lines 175-181) with showErrorMessage (lines         *)
(* 187-204).  An overlay is named by the number of the error signal that   *)
(* created it.                                                             *)
(***************************************************************************)
RemoveOverlay == [run |-> "removeOverlay", due |-> 0, target |-> 0]

\* Mutant: the overlay is appended and no timer is set to remove it.
showErrorMessage_NoTimer(id) ==
    /\ frameContainer' =
         [frameContainer EXCEPT !.loading = FALSE,
                                !.overlays = Append(@, id)]
    /\ UNCHANGED timers

\* Mutant: no second overlay while one is shown.
showErrorMessage_Single(id) ==
    IF frameContainer.overlays = <<>>
    THEN /\ frameContainer' =
              [frameContainer EXCEPT !.loading = FALSE,
                                     !.overlays = Append(@, id)]
         /\ timers' = timers \cup
              {[RemoveOverlay EXCEPT !.due = now + OverlayMs, !.target = id]}
    ELSE /\ frameContainer' = [frameContainer EXCEPT !.loading = FALSE]
         /\ UNCHANGED timers

showErrorMessage(id) ==
    /\ frameContainer' =
         [frameContainer EXCEPT !.loading = FALSE,
                                !.overlays = Append(@, id)]
    /\ timers' = timers \cup
         {[RemoveOverlay EXCEPT !.due = now + OverlayMs, !.target = id]}

\* Mutant: a failure clears currentUrl so that the page can be asked for
\* again.
FrameError_ForgetsUrl ==
    /\ started
    /\ "error" \in listeners
    /\ pending > 0
    /\ Len(errors) < MaxErrors
    /\ now + OverlayMs <= MaxTime
    /\ pending' = pending - 1
    /\ slowRequested' = FALSE
    /\ errors' = Append(errors, now)
    /\ currentUrl' = ""
    /\ IF frameContainer.exists
       THEN /\ showErrorMessage(Len(errors) + 1)
            /\ last' = [Idle EXCEPT !.op = "error"]
       ELSE /\ last' = [Idle EXCEPT !.op = "error", !.threw = TRUE]
            /\ UNCHANGED <<frameContainer, timers>>
    /\ UNCHANGED <<navButtons, contentFrame, welcomeScreen, bottomNav,
                   messageEl, hasVibrate, charIndex, listeners,
                   now, started, authored, activated, navigated>>

FrameError ==
    /\ started
    /\ "error" \in listeners
    /\ pending > 0
    /\ Len(errors) < MaxErrors
    /\ now + OverlayMs <= MaxTime
    /\ pending' = pending - 1
    /\ slowRequested' = FALSE
    /\ errors' = Append(errors, now)
    /\ IF frameContainer.exists
       THEN /\ showErrorMessage(Len(errors) + 1)
            /\ last' = [Idle EXCEPT !.op = "error"]
       ELSE /\ last' = [Idle EXCEPT !.op = "error", !.threw = TRUE]
            /\ UNCHANGED <<frameContainer, timers>>
    /\ UNCHANGED <<navButtons, contentFrame, welcomeScreen, bottomNav,
                   messageEl, hasVibrate, currentUrl, charIndex, listeners,
                   now, started, authored, activated, navigated>>

(***************************************************************************)
(* Timer callbacks (lines 75-81, 78-80, 201-203).                          *)
(***************************************************************************)
JitterOff == [run |-> "jitterOff", due |-> 0, target |-> 0]

\* Mutant: taking the overlay away also takes the loading class away.
RunTimer_ClearsLoading(t) ==
    IF t.run = "jitterOn"
    THEN /\ bottomNav' = [bottomNav EXCEPT !.jitter = TRUE]
         /\ timers' = (timers \ {t}) \cup
                        {[JitterOff EXCEPT !.due = now + JitterMs]}
         /\ UNCHANGED frameContainer
    ELSE IF t.run = "jitterOff"
    THEN /\ bottomNav' = [bottomNav EXCEPT !.jitter = FALSE]
         /\ timers' = timers \ {t}
         /\ UNCHANGED frameContainer
    ELSE /\ frameContainer' =
              [frameContainer EXCEPT
                 !.loading = FALSE,
                 !.overlays = SelectSeq(@, LAMBDA id : id # t.target)]
         /\ timers' = timers \ {t}
         /\ UNCHANGED bottomNav

RunTimer(t) ==
    IF t.run = "jitterOn"
    THEN /\ bottomNav' = [bottomNav EXCEPT !.jitter = TRUE]
         /\ timers' = (timers \ {t}) \cup
                        {[JitterOff EXCEPT !.due = now + JitterMs]}
         /\ UNCHANGED frameContainer
    ELSE IF t.run = "jitterOff"
    THEN /\ bottomNav' = [bottomNav EXCEPT !.jitter = FALSE]
         /\ timers' = timers \ {t}
         /\ UNCHANGED frameContainer
    ELSE /\ frameContainer' =
              [frameContainer EXCEPT
                 !.overlays = SelectSeq(@, LAMBDA id : id # t.target)]
         /\ timers' = timers \ {t}
         /\ UNCHANGED bottomNav

TimerFire ==
    /\ started
    /\ \E t \in timers :
          /\ t.due <= now
          /\ RunTimer(t)
          /\ last' = [Idle EXCEPT !.op = "timer"]
    /\ UNCHANGED <<navButtons, contentFrame, welcomeScreen, messageEl,
                   hasVibrate, currentUrl, charIndex, listeners, now, pending,
                   started, authored, errors, activated, navigated,
                   slowRequested>>

(***************************************************************************)
(* The clock moves on by TimeStep or to the next timer, never past one.    *)
(***************************************************************************)
Advance ==
    /\ started
    /\ \E t \in {now + TimeStep} \cup {timer.due : timer \in timers} :
          /\ t > now
          /\ t <= MaxTime
          /\ \A timer \in timers : t <= timer.due
          /\ now' = t
    /\ last' = [Idle EXCEPT !.op = "advance"]
    /\ UNCHANGED <<dom, hasVibrate, currentUrl, charIndex, listeners, timers,
                   pending, started, authored, errors, activated, navigated,
                   slowRequested>>

Next ==
    \/ Startup
    \/ \E index \in 0..MaxButtons - 1 : Click(index)
    \/ \E e \in KeyEvents : KeyDown(e.altKey, e.k)
    \/ FrameLoad
    \/ FrameError
    \/ TimerFire
    \/ Advance

Spec == Init /\ [][Next]_vars

(***************************************************************************)
(* Pages on which the frame or the frame container may be missing.         *)
(***************************************************************************)
InitAbsent == Init \/ InitPage(Rows, BrokenPages)

SpecAbsent == InitAbsent /\ [][Next]_vars

(***************************************************************************)
(* The text sequencer on its own: startup over the welcome message trees.  *)
(***************************************************************************)
InitSeq == InitPage({<<>>}, {[FullPage EXCEPT !.message = m] : m \in TreeMessages})

\* processNode applied once more to the message it has already sequenced,
\* the case the test of line 65 is written for; charIndex runs on.
processNodeAgain ==
    /\ started
    /\ messageEl # NullNode
    /\ LET r == processNode(messageEl, charIndex) IN
         /\ messageEl' = r.out[1]
         /\ charIndex' = r.idx
    /\ last' = [Idle EXCEPT !.op = "traverse"]
    /\ UNCHANGED <<navButtons, contentFrame, frameContainer, welcomeScreen,
                   bottomNav, hasVibrate, currentUrl, listeners, timers, now,
                   pending, started, authored, errors, activated, navigated,
                   slowRequested>>

NextSeq == Startup \/ processNodeAgain

SpecSeq == InitSeq /\ [][NextSeq]_vars

TypeOK ==
    /\ now \in 0..MaxTime
    /\ pending \in 0..MaxPending
    /\ Len(errors) <= MaxErrors

(***************************************************************************)
(* Vocabulary of the properties.                                           *)
(***************************************************************************)
ActiveButtons == {i \in 1..Len(navButtons) : navButtons[i].active}

Activation(event) == event.op = "click"

\* The step is the activation of the button with the given index.
Activates(index) == Activation(last') /\ last'.index = index

\* The url of that button is neither empty nor the one on show beforehand.
Fresh(index) ==
    /\ navButtons[index + 1].url # ""
    /\ navButtons[index + 1].url # currentUrl

Indices == 0..MaxButtons

(***************************************************************************)
(* C1 as claimed: at most one button is active in every state, and exactly *)
(* one once any button has been activated.                                 *)
(***************************************************************************)
C1_OneActiveAfterActivation ==
    /\ Cardinality(ActiveButtons) <= 1
    /\ activated => Cardinality(ActiveButtons) = 1

(***************************************************************************)
(* C1 amended: at most one button is active in every state; exactly one is *)
(* active once a button that has a url has been activated, none before.    *)
(***************************************************************************)
C1_OneActiveAfterNavigation ==
    /\ Cardinality(ActiveButtons) <= 1
    /\ navigated <=> Cardinality(ActiveButtons) = 1

C1_Witness ==
    /\ Activation(last)
    /\ ~last.redundant
    /\ last.index = 0
    /\ slowRequested
    /\ ActiveButtons = {1}

(***************************************************************************)
(* C2: once a button with a url has been activated, the active button is   *)
(* one whose url is currentUrl, and the frame's src is currentUrl.         *)
(***************************************************************************)
C2_UrlOfActiveButton ==
    navigated =>
        /\ ActiveButtons # {}
        /\ \A i \in ActiveButtons : navButtons[i].url = currentUrl
        /\ contentFrame.src = currentUrl

C2_Witness ==
    /\ last.op = "timer"
    /\ frameContainer.overlays = <<>>
    /\ errors # <<>>
    /\ navigated
    /\ Len(navButtons) >= 2
    /\ contentFrame.src = navButtons[2].url
    /\ pending > 0

(***************************************************************************)
(* C3: the activation of a button whose url is empty or is currentUrl      *)
(* changes neither currentUrl, the frame container (loading class and      *)
(* overlays), the frame, the buttons nor the welcome screen, and gives no  *)
(* haptic pulse.                                                           *)
(***************************************************************************)
C3_RedundantIsNoOp ==
    [][\A index \in Indices :
          (Activates(index) /\ index < Len(navButtons) /\ ~Fresh(index)) =>
              /\ currentUrl' = currentUrl
              /\ frameContainer' = frameContainer
              /\ contentFrame' = contentFrame
              /\ navButtons' = navButtons
              /\ welcomeScreen' = welcomeScreen
              /\ pending' = pending
              /\ last'.vibrate = 0]_vars

C3_Witness ==
    /\ Activation(last)
    /\ last.redundant
    /\ navButtons[last.index + 1].url = currentUrl
    /\ currentUrl # ""
    /\ frameContainer.loading
    /\ pending > 0

(***************************************************************************)
(* C4 as claimed: once the loading class is set it stays set in every step *)
(* that is not the frame's load signal.                                    *)
(***************************************************************************)
C4_LoadingUntilLoadSignal ==
    [][(frameContainer.loading /\ last'.op # "load") =>
          frameContainer'.loading]_vars

(***************************************************************************)
(* C4 amended: a non-redundant activation of a button with index 2 or more *)
(* sets the loading class and the frame's src in the same step; the class  *)
(* is cleared only by a load signal, an error signal or a non-redundant    *)
(* activation of button 0 or 1, and it is clear after a load signal.       *)
(***************************************************************************)
C4_LoadingUntilCleared ==
    [][/\ \A index \in Indices :
             (Activates(index) /\ index < Len(navButtons) /\ Fresh(index)
                /\ index >= FirstSlowIndex) =>
                 /\ frameContainer'.loading
                 /\ contentFrame'.src = navButtons[index + 1].url
       /\ (frameContainer.loading /\ ~frameContainer'.loading) =>
             \/ last'.op \in {"load", "error"}
             \/ \E index \in 0..FirstSlowIndex - 1 :
                   Activates(index) /\ Fresh(index)
       /\ last'.op = "load" => ~frameContainer'.loading]_vars

C4_Witness ==
    /\ last.op = "advance"
    /\ frameContainer.loading
    /\ Len(navButtons) > FirstSlowIndex
    /\ contentFrame.src = navButtons[FirstSlowIndex + 1].url
    /\ pending > 0

(***************************************************************************)
(* C5 as claimed: right after any activation of button 0 or 1 the loading  *)
(* class is clear and the frame's src is that button's url.                *)
(***************************************************************************)
C5_FastNeverLoading ==
    (Activation(last) /\ last.index < FirstSlowIndex) =>
        /\ ~frameContainer.loading
        /\ contentFrame.src = navButtons[last.index + 1].url

(***************************************************************************)
(* C5 amended: a non-redundant activation of button 0 or 1 leaves the      *)
(* loading class clear and sets the frame's src to the button's url in the *)
(* same step, and the class is set afterwards only by a non-redundant      *)
(* activation of a button with index 2 or more.                            *)
(***************************************************************************)
C5_FastClearsLoading ==
    [][/\ \A index \in 0..FirstSlowIndex - 1 :
             (Activates(index) /\ index < Len(navButtons) /\ Fresh(index)) =>
                 /\ ~frameContainer'.loading
                 /\ contentFrame'.src = navButtons[index + 1].url
       /\ (~frameContainer.loading /\ frameContainer'.loading) =>
             \E index \in FirstSlowIndex..MaxButtons :
                 Activates(index) /\ Fresh(index)]_vars

C5_Witness ==
    /\ Activation(last)
    /\ last.index = 1
    /\ ~last.redundant
    /\ slowRequested
    /\ ~frameContainer.loading
    /\ contentFrame.src = navButtons[2].url

(***************************************************************************)
(* C6: the loading class is never set before a button with a url has been  *)
(* activated, never right after a load or error signal, and whenever it is *)
(* set a slow tab has been requested since the last load or error signal.  *)
(***************************************************************************)
C6_LoadingOnlyWhileRequested ==
    /\ ~navigated => ~frameContainer.loading
    /\ last.op \in {"load", "error"} => ~frameContainer.loading
    /\ frameContainer.loading => slowRequested

C6_Witness ==
    /\ last.op = "load"
    /\ Len(navButtons) > FirstSlowIndex
    /\ currentUrl = navButtons[FirstSlowIndex + 1].url
    /\ \A i \in 1..FirstSlowIndex : navButtons[i].url # currentUrl
    /\ ~frameContainer.loading
    /\ pending > 0

(***************************************************************************)
(* C7: an error signal appends exactly one overlay and leaves the loading  *)
(* class clear; the overlays present are those of the error signals less   *)
(* than 3000 ms old, and of those exactly 3000 ms old whose removal has    *)
(* not yet run at that instant; no overlay is older than 3000 ms, whatever *)
(* else happened in between.                                               *)
(***************************************************************************)
OverlayDue(id) ==
    \E t \in timers : t.run = "removeOverlay" /\ t.target = id

C7_OverlayPerError ==
    [][/\ last'.op = "error" =>
             /\ Len(frameContainer'.overlays) = Len(frameContainer.overlays) + 1
             /\ ~frameContainer'.loading
       /\ LET shown == frameContainer'.overlays IN
          /\ Cardinality(Range(shown)) = Len(shown)
          /\ Range(shown) =
               {id \in 1..Len(errors') :
                   \/ now' < errors'[id] + OverlayMs
                   \/ now' = errors'[id] + OverlayMs /\ OverlayDue(id)'}
          /\ Len(shown) =
               Cardinality({id \in 1..Len(errors') :
                               now' < errors'[id] + OverlayMs})
               + Cardinality({id \in 1..Len(errors') :
                               now' = errors'[id] + OverlayMs
                               /\ OverlayDue(id)'})]_vars

C7_Witness ==
    /\ Len(frameContainer.overlays) = 2
    /\ errors[1] < errors[2]
    /\ now > errors[2]
    /\ Activation(last)
    /\ ~last.redundant

(***************************************************************************)
(* Reading a message tree: all its characters, and its animated spans, in  *)
(* document order.                                                         *)
(***************************************************************************)
RECURSIVE AllText(_)
AllText(node) ==
    IF node.nodeType = 3 THEN node.text
    ELSE Concat([i \in 1..Len(node.childNodes) |-> AllText(node.childNodes[i])])

RECURSIVE Units(_)
Units(node) ==
    IF node.delay >= 0 THEN <<node>>
    ELSE Concat([i \in 1..Len(node.childNodes) |-> Units(node.childNodes[i])])

IsContent(char) == char \notin {" ", "\n", "\r", "\t"}

(***************************************************************************)
(* C8 as claimed: after sequencing there is one animated span for every    *)
(* character of the message that is not a space, newline, carriage return  *)
(* or tab, in document order, and the k-th span has delay (k-1) x 30 ms.   *)
(***************************************************************************)
C8_UnitPerCharacter ==
    started =>
        LET units == Units(messageEl)
            content == SelectSeq(AllText(authored), IsContent)
        IN /\ Len(units) = Len(content)
           /\ charIndex = Len(content)
           /\ \A k \in 1..Len(units) :
                 /\ AllText(units[k]) = <<content[k]>>
                 /\ units[k].delay * 10 = (k - 1) * CharDelayMs

(***************************************************************************)
(* C9 as claimed: with the bottom navigation and the message present, the  *)
(* jitter class is off before charIndex x 30 + 600 ms, on between that     *)
(* instant and 2500 ms later, and off after that.                          *)
(***************************************************************************)
C9_JitterSchedule ==
    (started /\ bottomNav.exists /\ messageEl # NullNode) =>
        LET on == charIndex * CharDelayMs + RevealMs
            off == on + JitterMs
        IN /\ now < on => ~bottomNav.jitter
           /\ (on < now /\ now < off) => bottomNav.jitter
           /\ now > off => ~bottomNav.jitter

(***************************************************************************)
(* C10 as claimed: whatever is missing from the page, no handler ends in   *)
(* an error and the active button is never one whose url is not            *)
(* currentUrl.                                                             *)
(***************************************************************************)
C10_DegradesToNoOp ==
    /\ ~last.threw
    /\ \A i \in ActiveButtons : navButtons[i].url = currentUrl

(***************************************************************************)
(* What the claims call the controller state, the haptic pulse apart.      *)
(***************************************************************************)
controller ==
    <<navButtons, currentUrl, contentFrame, frameContainer, welcomeScreen>>

DigitKeys == {"1", "2", "3", "4", "5"}

DigitValue ==
    [key \in DigitKeys |->
        CASE key = "1" -> 1 [] key = "2" -> 2 [] key = "3" -> 3
          [] key = "4" -> 4 [] key = "5" -> 5]

(***************************************************************************)
(* C11: a keydown of digit d in 1..5 with the modifier is the very step a  *)
(* pointer click on button d-1 takes (same buttons, currentUrl, frame,     *)
(* loading class, welcome screen and haptic pulse) when that button        *)
(* exists; any other keydown leaves the controller state as it is and      *)
(* gives no pulse.                                                         *)
(***************************************************************************)
C11_KeyIsClick ==
    [][\A e \in KeyEvents :
          KeyDown(e.altKey, e.k) =>
              IF /\ e.altKey
                 /\ e.k.key \in DigitKeys
                 /\ DigitValue[e.k.key] <= Len(navButtons)
              THEN Click(DigitValue[e.k.key] - 1)
              ELSE /\ UNCHANGED controller
                   /\ UNCHANGED pending
                   /\ last'.vibrate = 0
                   /\ last'.op = "keydown"]_vars

C11_Witness ==
    /\ last.op = "keydown"
    /\ frameContainer.loading
    /\ Len(navButtons) = MaxButtons
    /\ navButtons[MaxButtons].active
    /\ pending > 0

(***************************************************************************)
(* C12: on a page with a welcome screen the screen is shown exactly until  *)
(* a button with a url has been activated; it is hidden by a non-redundant *)
(* activation and by no other step, and once hidden it stays hidden.       *)
(***************************************************************************)
C12_WelcomeHiddenForGood ==
    [][/\ welcomeScreen'.exists => (welcomeScreen'.active <=> ~navigated')
       /\ ~welcomeScreen.active => ~welcomeScreen'.active
       /\ (welcomeScreen.active /\ ~welcomeScreen'.active) =>
             \E index \in Indices :
                 Activates(index) /\ index < Len(navButtons) /\ Fresh(index)
       /\ \A index \in Indices :
             (Activates(index) /\ index < Len(navButtons) /\ ~Fresh(index)) =>
                 welcomeScreen' = welcomeScreen]_vars

C12_Witness ==
    /\ welcomeScreen.exists
    /\ ~welcomeScreen.active
    /\ Activation(last)
    /\ ~last.redundant
    /\ errors # <<>>
    /\ now > 0

(***************************************************************************)
(* C13: nothing is cancelled.  A non-redundant activation of a slow button *)
(* while a frame signal is still outstanding overwrites currentUrl with    *)
(* the new url and withdraws no outstanding signal; a load signal that     *)
(* fires while a younger request is outstanding clears the loading class   *)
(* all the same and leaves currentUrl at the younger url.                  *)
(***************************************************************************)
C13_StaleLoadClears ==
    [][/\ \A index \in Indices :
             (/\ Activates(index)
              /\ index < Len(navButtons)
              /\ Fresh(index)
              /\ index >= FirstSlowIndex
              /\ pending > 0) =>
                 /\ currentUrl' = navButtons[index + 1].url
                 /\ frameContainer'.loading
                 /\ pending' >= pending
       /\ (last'.op = "load" /\ pending >= 2) =>
             /\ ~frameContainer'.loading
             /\ pending' = pending - 1
             /\ currentUrl' = currentUrl]_vars

\* The loading class is off, the slow page is the current one, and the
\* signal of its request is still to come.
C13_Witness ==
    /\ last.op = "load"
    /\ pending > 0
    /\ ~frameContainer.loading
    /\ Len(navButtons) > FirstSlowIndex
    /\ currentUrl = navButtons[FirstSlowIndex + 1].url
    /\ contentFrame.src = currentUrl
    /\ \A i \in 1..FirstSlowIndex : navButtons[i].url # currentUrl

(***************************************************************************)
(* C14: a second traversal of the sequenced message changes nothing: the   *)
(* tree is the same node for node (no span split or wrapped again, every   *)
(* space and line break where it was), no delay is reassigned and the unit *)
(* count stays where the first pass left it.                               *)
(***************************************************************************)
C14_SecondPassIsIdentity ==
    [][last'.op = "traverse" =>
          /\ messageEl' = messageEl
          /\ Units(messageEl') = Units(messageEl)
          /\ charIndex' = charIndex]_vars

C14_Witness ==
    /\ last.op = "traverse"
    /\ Len(Units(messageEl)) = 2
    /\ \E i \in 1..Len(messageEl.childNodes) :
          messageEl.childNodes[i].tagName = "br"
    /\ \E i \in 1..Len(messageEl.childNodes) :
          messageEl.childNodes[i] = TextNode(<<" ">>)

(***************************************************************************)
(* C15: a failure leaves nothing behind but its overlay.  A frame error    *)
(* signal takes the controller to the state the load signal would have     *)
(* taken it to, with one overlay appended; the overlay's timer takes away  *)
(* that overlay and nothing else, and no overlay is shown more than        *)
(* 3000 ms after its error.  What an activation does is a function of the  *)
(* buttons and currentUrl alone, whether or not a failure went before: a   *)
(* button with another url gets the active class, its url becomes          *)
(* currentUrl and the frame's src, the loading class is set by its index,  *)
(* and the overlays stay as they are.                                      *)
(***************************************************************************)
C15_FailureLeavesOnlyOverlay ==
    [][/\ last'.op \in {"load", "error"} =>
             /\ UNCHANGED <<navButtons, currentUrl, contentFrame,
                            welcomeScreen>>
             /\ pending' = pending - 1
             /\ frameContainer' =
                  [frameContainer EXCEPT
                     !.loading = FALSE,
                     !.overlays = IF last'.op = "error"
                                  THEN Append(@, Len(errors'))
                                  ELSE @]
       /\ last'.op = "timer" =>
             /\ UNCHANGED <<navButtons, currentUrl, contentFrame,
                            welcomeScreen, pending>>
             /\ frameContainer'.loading = frameContainer.loading
       /\ \A id \in Range(frameContainer'.overlays) :
             /\ id \in 1..Len(errors')
             /\ now' <= errors'[id] + OverlayMs
       /\ \A index \in Indices :
             (Activates(index) /\ index < Len(navButtons) /\ Fresh(index)) =>
                 /\ navButtons' = updateActiveButton(index)
                 /\ currentUrl' = navButtons[index + 1].url
                 /\ contentFrame'.src = navButtons[index + 1].url
                 /\ frameContainer' =
                      [frameContainer EXCEPT
                         !.loading = index >= FirstSlowIndex]
                 /\ UNCHANGED timers]_vars

\* A new navigation has started after a failure whose overlay is gone.
C15_Witness ==
    /\ Activation(last)
    /\ ~last.redundant
    /\ errors # <<>>
    /\ frameContainer.overlays = <<>>
    /\ \A t \in timers : t.run # "removeOverlay"
    /\ now >= errors[Len(errors)] + OverlayMs
    /\ frameContainer.loading

(***************************************************************************)
(* C16: the loading class goes from on to off only in a frame load signal, *)
(* a frame error signal or the non-redundant activation of button 0 or 1.  *)
(* Through every other step (a timer callback, the passing of time, a      *)
(* redundant activation, a keydown with no target, the activation of a     *)
(* slow button) a loading class that is on stays on: there is no timeout.  *)
(***************************************************************************)
ClearsLoading ==
    \/ last'.op \in {"load", "error"}
    \/ \E index \in 0..FirstSlowIndex - 1 :
          Activates(index) /\ index < Len(navButtons) /\ Fresh(index)

C16_LoadingClearedOnlyByThree ==
    [][frameContainer.loading =>
          (frameContainer'.loading <=> ~ClearsLoading)]_vars

\* Still loading after the overlay of an earlier failure has come and gone.
C16_Witness ==
    /\ frameContainer.loading
    /\ last.op = "timer"
    /\ errors # <<>>
    /\ now >= errors[1] + OverlayMs
    /\ frameContainer.overlays = <<>>

(***************************************************************************)
(* C17: a frame error signal leaves currentUrl, the buttons and the        *)
(* frame's src as they were.  The frame's src is assigned only by the      *)
(* activation of a button whose url is not empty and differs from          *)
(* currentUrl, so activating again the button of a page that failed does   *)
(* nothing: no request, no change of any class.                            *)
(***************************************************************************)
C17_FailedPageStaysCurrent ==
    [][/\ last'.op = "error" =>
             UNCHANGED <<currentUrl, navButtons, contentFrame>>
       /\ (contentFrame' # contentFrame \/ (started /\ pending' > pending)) =>
             \E index \in Indices :
                 /\ Activates(index)
                 /\ index < Len(navButtons)
                 /\ Fresh(index)
                 /\ contentFrame'.src = navButtons[index + 1].url
       /\ \A index \in Indices :
             (/\ Activates(index)
              /\ index < Len(navButtons)
              /\ navButtons[index + 1].url = currentUrl) =>
                 /\ last'.redundant
                 /\ UNCHANGED <<controller, pending>>]_vars

\* The button of the failed page has been activated again while the overlay
\* of the failure is still shown.
C17_Witness ==
    /\ Activation(last)
    /\ last.redundant
    /\ last.index >= FirstSlowIndex
    /\ last.index < Len(navButtons)
    /\ navButtons[last.index + 1].active
    /\ navButtons[last.index + 1].url = currentUrl
    /\ contentFrame.src = currentUrl
    /\ errors # <<>>
    /\ frameContainer.overlays # <<>>
    /\ ~frameContainer.loading
    /\ pending = 0

(***************************************************************************)
(* C18: on a page without a welcome message startup makes no unit and the  *)
(* jitter class is never set, bottom navigation or not.  On a page whose   *)
(* welcome message has no text, startup makes no unit and, the bottom      *)
(* navigation being there, the jitter class is off before 600 ms, on from  *)
(* 600 ms to 3100 ms and off after that.                                   *)
(***************************************************************************)
JitterTimers == {t \in timers : t.run \in {"jitterOn", "jitterOff"}}

C18_NoMessageOrEmptyMessage ==
    /\ (started /\ authored = NullNode) =>
          /\ messageEl = NullNode
          /\ charIndex = 0
          /\ ~bottomNav.jitter
          /\ JitterTimers = {}
    /\ (started /\ authored # NullNode /\ AllText(authored) = <<>>) =>
          /\ Units(messageEl) = <<>>
          /\ charIndex = 0
          /\ bottomNav.exists =>
                /\ now < RevealMs => ~bottomNav.jitter
                /\ (RevealMs < now /\ now < RevealMs + JitterMs) =>
                      bottomNav.jitter
                /\ now > RevealMs + JitterMs => ~bottomNav.jitter
                /\ \A t \in JitterTimers :
                      t.due = IF t.run = "jitterOn"
                              THEN RevealMs
                              ELSE RevealMs + JitterMs

\* The empty message's jitter class is on, between its two instants.
C18_Witness ==
    /\ authored # NullNode
    /\ AllText(authored) = <<>>
    /\ bottomNav.jitter
    /\ now > RevealMs
    /\ now < RevealMs + JitterMs

====
